---- MODULE Spec2Model ----
(***************************************************************************)
(* Model of the FreeRTOS data-acquisition sketch (src/unnamed/part_001,    *)
(* ISRs in src/unnamed/part_002; part_000 is the same pipeline with 17     *)
(* channels): two timer ISRs wake samplingTask and printTask, which share  *)
(* the circular buffer `buffer` under bufMutex.                            *)
(*                                                                         *)
(* A sample is modelled by where it comes from: the k-th acquisition reads *)
(* 10*k + c on channel c, so that a row's provenance can be read back from *)
(* its contents.  The static storage starts zero-filled.                   *)
(*                                                                         *)
(* The repository holds two more programs with the same two timers: the    *)
(* sketch that works on its buffer inside the ISRs (DAQ_System/src/        *)
(* main.cpp) and the threaded simulation (DAQ_System/include/callbacks.h). *)
(* `program` says which of the three is running.                           *)
(***************************************************************************)
EXTENDS Integers, Sequences, FiniteSets, TLC

\* ---- sizes ----------------------------------------------------------------
\* The source has NUM_ROWS = 50 and NUM_CH = 8 (17 in part_000); the model
\* explores a buffer of 3 rows of 2 channels.
NUM_ROWS == 3
NUM_CH == 2
QUEUE_LENGTH == 16
EVT_T1 == 1
EVT_T2 == 2
BATCH_ROWS == 2
\* number of timer-1 / timer-2 interrupts explored
MaxT1 == 5
MaxT2 == 2
\* timer-1 interrupts explored while the event queue is filled
QueueT1 == 1
\* timer-1 interrupts explored, and timer-2 interrupts explored at a time, while
\* timer 2 fires for ever
LiveT1 == 3
LiveT2 == 1

\* main.cpp: #define BUFFER_SIZE 500 * 3 and #define DATA_SIZE 1000 * 3; the
\* model explores 5 and 2 triplets.
BUFFER_TRIPLETS == 5
BUFFER_SIZE == BUFFER_TRIPLETS * 3
DATA_TRIPLETS == 2
DATA_SIZE == DATA_TRIPLETS * 3
T1_INTERVAL == 5000
T2_INTERVAL == 10000

\* callbacks.h: BUFFER_SIZE 500 (the capacity of Buffer) and DATA_SIZE 1000; the
\* model explores 2 and 3.
SIM_BUFFER_SIZE == 2
SIM_DATA_SIZE == 3
SIM_T1_INTERVAL == 5
SIM_T2_INTERVAL == 10

Rows == 0 .. (NUM_ROWS - 1)
Chans == 0 .. (NUM_CH - 1)

VARIABLES
  \* program state (part_001 lines 12-32)
  buffer, buf_head, buf_tail, buf_count, bufMutex,
  printQueueCreated, printQueue, samplingTaskHandle, notifyValue,
  \* samplingTask: position and locals
  s_pc, s_row, s_c,
  \* printTask: position and locals
  p_pc, p_evt, p_r, p_haveRow, p_row, p_c,
  \* Serial output, one entry per line printed by printTask
  sink,
  \* the system has aborted (xSemaphoreTake on a NULL handle)
  panicked,
  \* interrupts still to be delivered
  t1Left, t2Left,
  \* history: what has been acquired, pushed, popped, evicted, dropped
  nAcquired, pushLog, popLog, evictLog, dropLog,
  \* history: the buffer as each task found it when it took bufMutex
  s_pre, p_pre,
  \* history of the current drain batch
  batch,
  \* which program runs: "freertos", "direct" (main.cpp) or "simulation"
  program,
  \* main.cpp: globals (lines 14-25; isr_buffer is its `buffer`)
  isr_buffer, front, rear, bufferSize, data, sendDataFlag,
  \* main.cpp: loop() position, its index i, the line being printed and the
  \* lines printed to Serial
  l_pc, l_i, l_line, serial,
  \* main.cpp history: triplets sampled, the values of the last onTimer2 batch
  d_k, deqBatch,
  \* main.cpp history: the contents `data` has had since data[0] of the line
  \* being printed was printed
  l_seen,
  \* callbacks.h: the Buffer object (data, front, rear, size)
  b_data, b_front, b_rear, b_size,
  \* callbacks.h: main()'s data and data_index, the threads' positions, std::cout
  sim_data, data_index, c1_pc, c1_value, c2_i, cout

progVars == <<buffer, buf_head, buf_tail, buf_count, bufMutex,
              printQueueCreated, printQueue, samplingTaskHandle, notifyValue>>
sVars == <<s_pc, s_row, s_c>>
pVars == <<p_pc, p_evt, p_r, p_haveRow, p_row, p_c>>
histVars == <<nAcquired, pushLog, popLog, evictLog, dropLog, s_pre, p_pre, batch>>
freertosVars == <<progVars, sVars, pVars, sink, panicked, histVars>>
directVars == <<isr_buffer, front, rear, bufferSize, data, sendDataFlag,
                l_pc, l_i, l_line, serial, d_k, deqBatch, l_seen>>
simVars == <<b_data, b_front, b_rear, b_size,
             sim_data, data_index, c1_pc, c1_value, c2_i, cout>>
variantVars == <<program, directVars, simVars>>
vars == <<progVars, sVars, pVars, sink, panicked, t1Left, t2Left, histVars,
          variantVars>>

\* ---- helpers --------------------------------------------------------------
\* analogRead(chPins[c]) of the k-th acquisition
analogRead(k, c) == 10 * k + c

ZeroRow == [c \in Chans |-> 0]

\* the rows held, oldest first: buf_count slots starting at buf_tail
Live == [i \in 1 .. buf_count |-> buffer[(buf_tail + i - 1) % NUM_ROWS]]

Snapshot == [head |-> buf_head, tail |-> buf_tail, count |-> buf_count,
             buffer |-> buffer, live |-> Live]

NoSnapshot == [head |-> 0, tail |-> 0, count |-> 0,
               buffer |-> [r \in Rows |-> ZeroRow], live |-> <<>>]

\* a line of Serial output
RowLine(row) == [kind |-> "row", row |-> row]
NoDataLine == [kind |-> "no-data", row |-> ZeroRow]

\* the drain batch in progress or last finished: the rows held when it started,
\* the pushes completed since, where its output starts in sink, and for each
\* of its pop attempts whether bufMutex was obtained and the buf_count found
NoBatch == [status |-> "none", m |-> 0, pushes |-> 0, from |-> 0, slots |-> <<>>,
            popped |-> 0]

\* ---- the other two programs before they run ---------------------------------
\* main.cpp lines 14-25: zero-filled arrays, front = rear = -1, bufferSize = 0
DirectStatics ==
  /\ isr_buffer = [i \in 0 .. (BUFFER_SIZE - 1) |-> 0]
  /\ front = -1 /\ rear = -1 /\ bufferSize = 0
  /\ data = [i \in 1 .. DATA_SIZE |-> 0]
  /\ sendDataFlag = FALSE
  /\ l_pc = "check" /\ l_i = 0 /\ l_line = <<>> /\ serial = <<>>
  /\ d_k = 0 /\ deqBatch = <<>> /\ l_seen = {}

\* callbacks.h lines 44, 153-155: Buffer buffer(BUFFER_SIZE), data, data_index
SimStatics ==
  /\ b_data = [i \in 0 .. (SIM_BUFFER_SIZE - 1) |-> 0]
  /\ b_front = -1 /\ b_rear = -1 /\ b_size = 0
  /\ sim_data = [i \in 0 .. (SIM_DATA_SIZE - 1) |-> 0]
  /\ data_index = 0
  /\ c1_pc = "enqueue" /\ c1_value = 0 /\ c2_i = 0
  /\ cout = <<>>

\* ---- setup() --------------------------------------------------------------
\* xQueueCreate, xSemaphoreCreateMutex and xTaskCreate may each fail; setup
\* reports the failure and carries on.
\* part_001 lines 12-32 and the tasks' locals before anything has run
FreertosStatics ==
  /\ buffer = [r \in Rows |-> ZeroRow]
  /\ buf_head = 0 /\ buf_tail = 0 /\ buf_count = 0
  /\ notifyValue = 0
  /\ s_row = ZeroRow /\ s_c = 0
  /\ p_evt = 0 /\ p_r = 0 /\ p_haveRow = FALSE /\ p_row = ZeroRow /\ p_c = 0
  /\ sink = <<>>
  /\ panicked = FALSE
  /\ nAcquired = 0
  /\ pushLog = <<>> /\ popLog = <<>> /\ evictLog = <<>> /\ dropLog = <<>>
  /\ s_pre = NoSnapshot /\ p_pre = NoSnapshot
  /\ batch = NoBatch

\* queued stands for the events printQueue may hold when it has been created
InitQueued(t1, t2, queued) ==
  /\ program = "freertos" /\ DirectStatics /\ SimStatics
  /\ FreertosStatics
  /\ bufMutex \in {"NULL", "free"}
  /\ printQueueCreated \in BOOLEAN
  /\ printQueue \in IF printQueueCreated THEN queued ELSE {<<>>}
  /\ samplingTaskHandle \in {"NULL", "samplingTask"}
  /\ s_pc = IF samplingTaskHandle = "NULL" THEN "notCreated" ELSE "wait"
  /\ p_pc = IF printQueueCreated THEN "recv" ELSE "notCreated"
  /\ t1Left = t1 /\ t2Left = t2

\* line 112: xQueueCreate gives an empty queue
InitWith(t1, t2) == InitQueued(t1, t2, {<<>>})

Init == InitWith(MaxT1, MaxT2)

\* ---- timer ISRs (part_002) --------------------------------------------------
\* (T1_callback without its test of samplingTaskHandle)
T1_callbackUnchecked ==
  /\ t1Left > 0
  /\ t1Left' = t1Left - 1
  /\ notifyValue' = notifyValue + 1
  /\ UNCHANGED <<buffer, buf_head, buf_tail, buf_count, bufMutex,
                 printQueueCreated, printQueue, samplingTaskHandle>>
  /\ UNCHANGED <<sVars, pVars, sink, panicked, t2Left, histVars, variantVars>>

\* lines 14-20
T1_callback ==
  /\ t1Left > 0
  /\ t1Left' = t1Left - 1
  /\ notifyValue' = IF samplingTaskHandle # "NULL" THEN notifyValue + 1 ELSE notifyValue
  /\ UNCHANGED <<buffer, buf_head, buf_tail, buf_count, bufMutex,
                 printQueueCreated, printQueue, samplingTaskHandle>>
  /\ UNCHANGED <<sVars, pVars, sink, panicked, t2Left, histVars, variantVars>>

\* xQueueSendFromISR fails without blocking when the queue is full
xQueueSendUnbounded(q, e) == Append(q, e)
xQueueSendFromISR(q, e) == IF Len(q) < QUEUE_LENGTH THEN Append(q, e) ELSE q

T2_callback ==
  /\ t2Left > 0
  /\ t2Left' = t2Left - 1
  /\ printQueue' = IF printQueueCreated THEN xQueueSendFromISR(printQueue, EVT_T2)
                   ELSE printQueue
  /\ UNCHANGED <<buffer, buf_head, buf_tail, buf_count, bufMutex,
                 printQueueCreated, samplingTaskHandle, notifyValue>>
  /\ UNCHANGED <<sVars, pVars, sink, panicked, t1Left, histVars, variantVars>>

\* ---- bufMutex ---------------------------------------------------------------
\* xSemaphoreTake(bufMutex, timeout) returns pdTRUE once the mutex is free and
\* pdFALSE when another task held it for the whole timeout.
MutexFreeOrHeld == bufMutex # "NULL"
MutexFree == bufMutex = "free"
MutexHeldByOther(me) == bufMutex \notin {"NULL", "free", me}

NextIndexStuck(i) == i
NextIndexNoWrap(i) == i + 1
NextIndex(i) == (i + 1) % NUM_ROWS

\* line 56: if (buf_count < NUM_ROWS)
HasRoomOffByOne(count) == count <= NUM_ROWS
HasRoom(count) == count < NUM_ROWS

\* lines 56-61: what a push does to buf_count and to buf_tail
CountAfterPushAlways(count) == count + 1
CountAfterPush(count) == IF HasRoom(count) THEN count + 1 ELSE count
TailAfterPushStuck(tail, count) == tail
TailAfterPush(tail, count) == IF HasRoom(count) THEN tail ELSE NextIndex(tail)

\* line 81: if (buf_count > 0)
HasDataOffByOne(count) == count >= 0
HasDataNeedsTwo(count) == count > 1
HasData(count) == count > 0

\* line 82: the slot a pop reads, buffer[buf_tail]
PopSlotNewest == (buf_head + NUM_ROWS - 1) % NUM_ROWS
PopSlot == buf_tail

\* ---- samplingTask (part_001 lines 36-67) --------------------------------------
\* line 39: ulTaskNotifyTake(pdTRUE, portMAX_DELAY) blocks until the
\* notification value is non-zero and clears it (pdFALSE would decrement it)
ulTaskNotifyTakeDecrement(value) == value - 1
ulTaskNotifyTake(value) == 0

S_Wait ==
  /\ s_pc = "wait"
  /\ notifyValue > 0
  /\ notifyValue' = ulTaskNotifyTake(notifyValue)
  /\ s_pc' = "read"
  /\ UNCHANGED <<buffer, buf_head, buf_tail, buf_count, bufMutex,
                 printQueueCreated, printQueue, samplingTaskHandle>>
  /\ UNCHANGED <<s_row, s_c, pVars, sink, panicked, t1Left, t2Left, histVars>>

\* lines 42-48: read every channel into the local row
S_Read ==
  /\ s_pc = "read"
  /\ nAcquired' = nAcquired + 1
  /\ s_row' = [c \in Chans |-> analogRead(nAcquired + 1, c)]
  /\ s_pc' = "take"
  /\ UNCHANGED <<progVars, s_c, pVars, sink, panicked, t1Left, t2Left>>
  /\ UNCHANGED <<pushLog, popLog, evictLog, dropLog, s_pre, p_pre, batch>>

\* line 51, pdTRUE
S_Take ==
  /\ s_pc = "take"
  /\ MutexFree
  /\ bufMutex' = "samplingTask"
  /\ s_pre' = Snapshot
  /\ s_pc' = "store0"
  /\ UNCHANGED <<buffer, buf_head, buf_tail, buf_count,
                 printQueueCreated, printQueue, samplingTaskHandle, notifyValue>>
  /\ UNCHANGED <<s_row, s_c, pVars, sink, panicked, t1Left, t2Left>>
  /\ UNCHANGED <<nAcquired, pushLog, popLog, evictLog, dropLog, p_pre, batch>>

\* (the return value of xSemaphoreTake ignored: the push goes ahead)
S_TakeTimeoutIgnored ==
  /\ s_pc = "take"
  /\ MutexHeldByOther("samplingTask")
  /\ s_pre' = Snapshot
  /\ s_pc' = "store0"
  /\ UNCHANGED <<progVars, s_row, s_c, pVars, sink, panicked, t1Left, t2Left>>
  /\ UNCHANGED <<nAcquired, pushLog, popLog, evictLog, dropLog, p_pre, batch>>

\* lines 51, 63-65: the 10 ms timeout expired; the sample is dropped
S_TakeTimeout ==
  /\ s_pc = "take"
  /\ MutexHeldByOther("samplingTask")
  /\ dropLog' = Append(dropLog, s_row)
  /\ s_pc' = "wait"
  /\ UNCHANGED <<progVars, s_row, s_c, pVars, sink, panicked, t1Left, t2Left>>
  /\ UNCHANGED <<nAcquired, pushLog, popLog, evictLog, s_pre, p_pre, batch>>

\* line 53: buffer[buf_head][0] = row[0]
S_Store0 ==
  /\ s_pc = "store0"
  /\ buffer' = [buffer EXCEPT ![buf_head][0] = s_row[0]]
  /\ s_c' = 0
  /\ s_pc' = "store"
  /\ UNCHANGED <<buf_head, buf_tail, buf_count, bufMutex,
                 printQueueCreated, printQueue, samplingTaskHandle, notifyValue>>
  /\ UNCHANGED <<s_row, pVars, sink, panicked, t1Left, t2Left, histVars>>

\* line 54: for (c = 0; c < NUM_CH; ++c) buffer[buf_head][c] = row[c]
S_Store ==
  /\ s_pc = "store"
  /\ buffer' = [buffer EXCEPT ![buf_head][s_c] = s_row[s_c]]
  /\ s_c' = s_c + 1
  /\ s_pc' = IF s_c + 1 < NUM_CH THEN "store" ELSE "head"
  /\ UNCHANGED <<buf_head, buf_tail, buf_count, bufMutex,
                 printQueueCreated, printQueue, samplingTaskHandle, notifyValue>>
  /\ UNCHANGED <<s_row, pVars, sink, panicked, t1Left, t2Left, histVars>>

\* line 55: buf_head = (buf_head + 1) % NUM_ROWS
S_Head ==
  /\ s_pc = "head"
  /\ buf_head' = NextIndex(buf_head)
  /\ s_pc' = "count"
  /\ UNCHANGED <<buffer, buf_tail, buf_count, bufMutex,
                 printQueueCreated, printQueue, samplingTaskHandle, notifyValue>>
  /\ UNCHANGED <<s_row, s_c, pVars, sink, panicked, t1Left, t2Left, histVars>>

\* lines 56-61: count the row, or advance the tail when the buffer was full.
\* The push is complete here; the row it evicts is the oldest the task found.
S_Count ==
  /\ s_pc = "count"
  /\ buf_count' = CountAfterPush(buf_count)
  /\ buf_tail' = TailAfterPush(buf_tail, buf_count)
  /\ evictLog' = IF HasRoom(buf_count) THEN evictLog
                 ELSE Append(evictLog, IF s_pre.live = <<>> THEN ZeroRow
                                       ELSE Head(s_pre.live))
  /\ pushLog' = Append(pushLog, s_row)
  /\ batch' = IF batch.status = "open" THEN [batch EXCEPT !.pushes = @ + 1] ELSE batch
  /\ s_pc' = "give"
  /\ UNCHANGED <<buffer, buf_head, bufMutex,
                 printQueueCreated, printQueue, samplingTaskHandle, notifyValue>>
  /\ UNCHANGED <<s_row, s_c, pVars, sink, panicked, t1Left, t2Left>>
  /\ UNCHANGED <<nAcquired, popLog, dropLog, s_pre, p_pre>>

\* line 62: xSemaphoreGive(bufMutex), back to the wait of line 39
S_Give ==
  /\ s_pc = "give"
  /\ bufMutex' = "free"
  /\ s_pc' = "wait"
  /\ UNCHANGED <<buffer, buf_head, buf_tail, buf_count,
                 printQueueCreated, printQueue, samplingTaskHandle, notifyValue>>
  /\ UNCHANGED <<s_row, s_c, pVars, sink, panicked, t1Left, t2Left, histVars>>

\* ---- printTask (part_001 lines 71-105) ----------------------------------------
\* line 74: xQueueReceive(printQueue, &evt, portMAX_DELAY)
P_Recv ==
  /\ p_pc = "recv"
  /\ printQueue # <<>>
  /\ p_evt' = Head(printQueue)
  /\ printQueue' = Tail(printQueue)
  /\ p_pc' = "dispatch"
  /\ UNCHANGED <<buffer, buf_head, buf_tail, buf_count, bufMutex,
                 printQueueCreated, samplingTaskHandle, notifyValue>>
  /\ UNCHANGED <<sVars, p_r, p_haveRow, p_row, p_c, sink, panicked, t1Left, t2Left>>
  /\ UNCHANGED histVars

\* line 75: if (evt == EVT_T2)
IsDrainEventAlways(evt) == TRUE
IsDrainEvent(evt) == evt = EVT_T2

\* lines 75, 77: only EVT_T2 starts a drain batch
P_Dispatch ==
  /\ p_pc = "dispatch"
  /\ IF IsDrainEvent(p_evt)
       THEN /\ p_r' = 0
            /\ p_pc' = "for"
            /\ batch' = [status |-> "open", m |-> buf_count, pushes |-> 0,
                         from |-> Len(sink), slots |-> <<>>,
                         popped |-> Len(popLog)]
       ELSE /\ p_pc' = "recv"
            /\ UNCHANGED <<p_r, batch>>
  /\ UNCHANGED <<progVars, sVars, p_evt, p_haveRow, p_row, p_c, sink, panicked>>
  /\ UNCHANGED <<t1Left, t2Left, nAcquired, pushLog, popLog, evictLog, dropLog>>
  /\ UNCHANGED <<s_pre, p_pre>>

\* lines 77-78: for (r = 0; r < 2; ++r) { bool haveRow = false; ...
P_For ==
  /\ p_pc = "for"
  /\ IF p_r < BATCH_ROWS
       THEN /\ p_haveRow' = FALSE
            /\ p_pc' = "take"
            /\ UNCHANGED batch
       ELSE /\ p_pc' = "recv"
            /\ batch' = [batch EXCEPT !.status = "closed"]
            /\ UNCHANGED p_haveRow
  /\ UNCHANGED <<progVars, sVars, p_evt, p_r, p_row, p_c, sink, panicked>>
  /\ UNCHANGED <<t1Left, t2Left, nAcquired, pushLog, popLog, evictLog, dropLog>>
  /\ UNCHANGED <<s_pre, p_pre>>

\* line 80, pdTRUE
P_Take ==
  /\ p_pc = "take"
  /\ MutexFree
  /\ bufMutex' = "printTask"
  /\ p_pre' = Snapshot
  /\ batch' = [batch EXCEPT !.slots = Append(@, [took |-> TRUE, count |-> buf_count])]
  /\ p_pc' = "check"
  /\ UNCHANGED <<buffer, buf_head, buf_tail, buf_count,
                 printQueueCreated, printQueue, samplingTaskHandle, notifyValue>>
  /\ UNCHANGED <<sVars, p_evt, p_r, p_haveRow, p_row, p_c, sink, panicked>>
  /\ UNCHANGED <<t1Left, t2Left, nAcquired, pushLog, popLog, evictLog, dropLog>>
  /\ UNCHANGED s_pre

\* line 80, pdFALSE: the 50 ms timeout expired; haveRow is still false and
\* control falls through to the output of lines 90-100
P_TakeTimeout ==
  /\ p_pc = "take"
  /\ MutexHeldByOther("printTask")
  /\ batch' = [batch EXCEPT !.slots = Append(@, [took |-> FALSE, count |-> buf_count])]
  /\ p_pc' = "emit"
  /\ UNCHANGED <<progVars, sVars, p_evt, p_r, p_haveRow, p_row, p_c, sink, panicked>>
  /\ UNCHANGED <<t1Left, t2Left, nAcquired, pushLog, popLog, evictLog, dropLog>>
  /\ UNCHANGED <<s_pre, p_pre>>

\* lines 81, 86-87: with nothing to pop, control goes on to xSemaphoreGive
AfterCheckNoDataSkipsGive == "emit"
AfterCheckNoData == "give"

\* line 81: if (buf_count > 0)
P_Check ==
  /\ p_pc = "check"
  /\ IF HasData(buf_count)
       THEN /\ p_c' = 0
            /\ p_pc' = "copy"
       ELSE /\ p_pc' = AfterCheckNoData
            /\ UNCHANGED p_c
  /\ UNCHANGED <<progVars, sVars, p_evt, p_r, p_haveRow, p_row, sink, panicked>>
  /\ UNCHANGED <<t1Left, t2Left, histVars>>

\* line 82: for (c = 0; c < NUM_CH; ++c) row[c] = buffer[buf_tail][c]
P_Copy ==
  /\ p_pc = "copy"
  /\ p_row' = [p_row EXCEPT ![p_c] = buffer[PopSlot][p_c]]
  /\ p_c' = p_c + 1
  /\ p_pc' = IF p_c + 1 < NUM_CH THEN "copy" ELSE "tail"
  /\ UNCHANGED <<progVars, sVars, p_evt, p_r, p_haveRow, sink, panicked>>
  /\ UNCHANGED <<t1Left, t2Left, histVars>>

\* line 83: buf_tail = (buf_tail + 1) % NUM_ROWS
P_Tail ==
  /\ p_pc = "tail"
  /\ buf_tail' = NextIndex(buf_tail)
  /\ p_pc' = "dec"
  /\ UNCHANGED <<buffer, buf_head, buf_count, bufMutex,
                 printQueueCreated, printQueue, samplingTaskHandle, notifyValue>>
  /\ UNCHANGED <<sVars, p_evt, p_r, p_haveRow, p_row, p_c, sink, panicked>>
  /\ UNCHANGED <<t1Left, t2Left, histVars>>

\* lines 84-85: buf_count--; haveRow = true.  The pop is complete here.
P_Dec ==
  /\ p_pc = "dec"
  /\ buf_count' = buf_count - 1
  /\ p_haveRow' = TRUE
  /\ popLog' = Append(popLog, p_row)
  /\ p_pc' = "give"
  /\ UNCHANGED <<buffer, buf_head, buf_tail, bufMutex,
                 printQueueCreated, printQueue, samplingTaskHandle, notifyValue>>
  /\ UNCHANGED <<sVars, p_evt, p_r, p_row, p_c, sink, panicked>>
  /\ UNCHANGED <<t1Left, t2Left, nAcquired, pushLog, evictLog, dropLog>>
  /\ UNCHANGED <<s_pre, p_pre, batch>>

\* line 87: xSemaphoreGive(bufMutex)
P_Give ==
  /\ p_pc = "give"
  /\ bufMutex' = "free"
  /\ p_pc' = "emit"
  /\ UNCHANGED <<buffer, buf_head, buf_tail, buf_count,
                 printQueueCreated, printQueue, samplingTaskHandle, notifyValue>>
  /\ UNCHANGED <<sVars, p_evt, p_r, p_haveRow, p_row, p_c, sink, panicked>>
  /\ UNCHANGED <<t1Left, t2Left, histVars>>

\* lines 90-100: print the row, or "<no-data>" when haveRow is false; ++r
EmitLineAlwaysRow(haveRow, row) == RowLine(row)
EmitLine(haveRow, row) == IF haveRow THEN RowLine(row) ELSE NoDataLine

P_Emit ==
  /\ p_pc = "emit"
  /\ sink' = Append(sink, EmitLine(p_haveRow, p_row))
  /\ p_r' = p_r + 1
  /\ p_pc' = "for"
  /\ UNCHANGED <<progVars, sVars, p_evt, p_haveRow, p_row, p_c, panicked>>
  /\ UNCHANGED <<t1Left, t2Left, histVars>>

\* ---- a NULL bufMutex ----------------------------------------------------------
\* setup() goes on after xSemaphoreCreateMutex fails (lines 123-126); the first
\* xSemaphoreTake on the NULL handle then aborts the system.
Panic ==
  /\ bufMutex = "NULL"
  /\ s_pc = "take" \/ p_pc = "take"
  /\ panicked' = TRUE
  /\ UNCHANGED <<progVars, sVars, pVars, sink, t1Left, t2Left, histVars>>
  /\ UNCHANGED variantVars

\* ---- the system -----------------------------------------------------------------
samplingTask ==
  /\ \/ S_Wait \/ S_Read \/ S_Take \/ S_TakeTimeout
     \/ S_Store0 \/ S_Store \/ S_Head \/ S_Count \/ S_Give
  /\ UNCHANGED variantVars

printTask ==
  /\ \/ P_Recv \/ P_Dispatch \/ P_For \/ P_Take \/ P_TakeTimeout
     \/ P_Check \/ P_Copy \/ P_Tail \/ P_Dec \/ P_Give \/ P_Emit
  /\ UNCHANGED variantVars

Running == ~panicked

Next ==
  /\ Running
  /\ \/ T1_callback
     \/ T2_callback
     \/ samplingTask
     \/ printTask
     \/ Panic

Spec == Init /\ [][Next]_vars

\* ---- main.cpp: the buffer worked on inside the ISRs -----------------------------
\* lines 31-33: the k-th triplet read; pin c of it reads 41 * (3k + c), which
\* map() turns into 10 * (3k + c)
analogReadPin(k, c) == 41 * (3 * k + c)

\* Arduino map(): linear rescaling in integer arithmetic
map(x, in_min, in_max, out_min, out_max) ==
  ((x - in_min) * (out_max - out_min)) \div (in_max - in_min) + out_min

Sample(k, c) == map(analogReadPin(k, c), 0, 4095, 0, 1000)

\* lines 37 and 56: BUFFER_SIZE is the unparenthesised `500 * 3`, so that
\* `(x + 1) % BUFFER_SIZE` is compiled as ((x + 1) % 500) * 3
ModBufferSize(x) == (x % BUFFER_TRIPLETS) * 3

\* the globals the ISRs work on, and the values dequeued so far by this ISR
IsrState ==
  [buffer |-> isr_buffer, front |-> front, rear |-> rear,
   bufferSize |-> bufferSize, data |-> data, sendDataFlag |-> sendDataFlag,
   batch |-> <<>>]

\* lines 35-44: one turn of the loop of onTimer1
EnqueueOne(st, value) ==
  LET r == IF st.front = -1 THEN 0 ELSE ModBufferSize(st.rear + 1)
  IN [st EXCEPT !.front = IF st.front = -1 THEN 0 ELSE @,
                !.rear = r,
                !.buffer = [@ EXCEPT ![r] = value],
                !.bufferSize = @ + 1]

\* lines 54-67: one turn of the loop of onTimer2; buffer[front] with front = -1
\* reads outside the array, whatever is stored there (junk)
DequeueOne(st, junk) ==
  IF st.bufferSize > 0
    THEN LET value == IF st.front \in DOMAIN st.buffer
                        THEN st.buffer[st.front] ELSE junk
         IN [st EXCEPT !.front = IF st.front = st.rear THEN -1
                                  ELSE ModBufferSize(st.front + 1),
                       !.rear = IF st.front = st.rear THEN -1 ELSE @,
                       !.bufferSize = @ - 1,
                       !.data = Append(Tail(@), value),
                       !.sendDataFlag = TRUE,
                       !.batch = Append(@, value)]
    ELSE st

RECURSIVE DequeueLoop(_, _, _)
DequeueLoop(st, n, junk) ==
  IF n = 0 THEN st ELSE DequeueLoop(DequeueOne(st, junk), n - 1, junk)

\* what may lie in front of `buffer` in memory
Junk == {-1, 1}

Direct == program = "direct"

\* lines 27-48
onTimer1 ==
  /\ Direct
  /\ t1Left > 0
  /\ t1Left' = t1Left - 1
  /\ IF bufferSize <= BUFFER_SIZE - 3
       THEN LET k == d_k + 1
                st == EnqueueOne(EnqueueOne(EnqueueOne(IsrState,
                        Sample(k, 0)), Sample(k, 1)), Sample(k, 2))
            IN /\ isr_buffer' = st.buffer
               /\ front' = st.front /\ rear' = st.rear
               /\ bufferSize' = st.bufferSize
               /\ d_k' = k
       ELSE UNCHANGED <<isr_buffer, front, rear, bufferSize, d_k>>
  /\ UNCHANGED <<data, sendDataFlag, l_pc, l_i, l_line, serial, deqBatch, l_seen>>
  /\ UNCHANGED <<freertosVars, t2Left, program, simVars>>

\* lines 50-72
onTimer2 ==
  /\ Direct
  /\ t2Left > 0
  /\ t2Left' = t2Left - 1
  /\ \E junk \in Junk :
       LET range == (T2_INTERVAL \div T1_INTERVAL) * 3
           st == DequeueLoop(IsrState, range, junk)
       IN /\ isr_buffer' = st.buffer
          /\ front' = st.front /\ rear' = st.rear
          /\ bufferSize' = st.bufferSize
          /\ data' = st.data
          /\ sendDataFlag' = st.sendDataFlag
          /\ deqBatch' = st.batch
          /\ l_seen' = IF l_pc = "print" /\ l_i \in 1 .. (DATA_SIZE - 1)
                         THEN l_seen \cup {st.data} ELSE l_seen
  /\ UNCHANGED <<l_pc, l_i, l_line, serial, d_k>>
  /\ UNCHANGED <<freertosVars, t1Left, program, simVars>>

\* line 94: if (sendDataFlag)
L_Check ==
  /\ Direct
  /\ l_pc = "check"
  /\ l_pc' = IF sendDataFlag THEN "clear" ELSE "check"
  /\ UNCHANGED <<isr_buffer, front, rear, bufferSize, data, sendDataFlag,
                 l_i, l_line, serial, d_k, deqBatch, l_seen>>
  /\ UNCHANGED <<freertosVars, t1Left, t2Left, program, simVars>>

\* lines 95-97: sendDataFlag = false inside the critical section
L_Clear ==
  /\ Direct
  /\ l_pc = "clear"
  /\ sendDataFlag' = FALSE
  /\ l_i' = 0
  /\ l_pc' = "print"
  /\ UNCHANGED <<isr_buffer, front, rear, bufferSize, data,
                 l_line, serial, d_k, deqBatch, l_seen>>
  /\ UNCHANGED <<freertosVars, t1Left, t2Left, program, simVars>>

\* lines 99-102: Serial.print(data[i]); Serial.print(" ")
L_Print ==
  /\ Direct
  /\ l_pc = "print"
  /\ l_i < DATA_SIZE
  /\ l_line' = Append(l_line, data[l_i + 1])
  /\ l_seen' = IF l_i = 0 THEN {data} ELSE l_seen
  /\ l_i' = l_i + 1
  /\ UNCHANGED <<isr_buffer, front, rear, bufferSize, data, sendDataFlag,
                 l_pc, serial, d_k, deqBatch>>
  /\ UNCHANGED <<freertosVars, t1Left, t2Left, program, simVars>>

\* line 103: Serial.println()
L_Println ==
  /\ Direct
  /\ l_pc = "print"
  /\ l_i = DATA_SIZE
  /\ serial' = Append(serial, l_line)
  /\ l_line' = <<>>
  /\ l_pc' = "check"
  /\ UNCHANGED l_seen
  /\ UNCHANGED <<isr_buffer, front, rear, bufferSize, data, sendDataFlag,
                 l_i, d_k, deqBatch>>
  /\ UNCHANGED <<freertosVars, t1Left, t2Left, program, simVars>>

loop == L_Check \/ L_Clear \/ L_Print \/ L_Println

\* ---- callbacks.h: the threaded simulation ---------------------------------------
Simulation == program = "simulation"

\* line 100: the k-th number drawn by randomInt() is modelled as k
randomInt(k) == k

\* lines 54-68: Buffer::enqueue, under the lock of the Buffer
enqueue(value) ==
  IF b_size = SIM_BUFFER_SIZE
    THEN /\ cout' = Append(cout, [msg |-> "Buffer is full. Cannot enqueue",
                                  value |-> value])
         /\ UNCHANGED <<b_data, b_front, b_rear, b_size>>
    ELSE LET r == IF b_size = 0 THEN 0 ELSE (b_rear + 1) % SIM_BUFFER_SIZE
         IN /\ b_front' = IF b_size = 0 THEN 0 ELSE b_front
            /\ b_rear' = r
            /\ b_data' = [b_data EXCEPT ![r] = value]
            /\ b_size' = b_size + 1
            /\ cout' = Append(cout, [msg |-> "Enqueued", value |-> value])

\* lines 107-109: callback1 up to its call of enqueue
C1_Enqueue ==
  /\ Simulation
  /\ c1_pc = "enqueue"
  /\ t1Left > 0
  /\ t1Left' = t1Left - 1
  /\ c1_value' = randomInt(c1_value + 1)
  /\ enqueue(c1_value')
  /\ c1_pc' = "display"
  /\ UNCHANGED <<sim_data, data_index, c2_i>>
  /\ UNCHANGED <<freertosVars, t2Left, program, directVars>>

\* lines 86-97, 110: Buffer::display
C1_Display ==
  /\ Simulation
  /\ c1_pc = "display"
  /\ cout' = Append(cout,
       IF b_size = 0
         THEN [msg |-> "Buffer is empty.", values |-> <<>>]
         ELSE [msg |-> "Buffer contents",
               values |-> [i \in 1 .. b_size |->
                            b_data[(b_front + i - 1) % SIM_BUFFER_SIZE]]])
  /\ c1_pc' = "enqueue"
  /\ UNCHANGED <<b_data, b_front, b_rear, b_size, sim_data, data_index,
                 c1_value, c2_i>>
  /\ UNCHANGED <<freertosVars, t1Left, t2Left, program, directVars>>

callback1 == C1_Enqueue \/ C1_Display

\* lines 113-123 with Buffer::dequeue (lines 70-84): one turn of the loop of
\* callback2; the first turn is the start of a new call
callback2 ==
  /\ Simulation
  /\ c2_i > 0 \/ t2Left > 0
  /\ t2Left' = IF c2_i = 0 THEN t2Left - 1 ELSE t2Left
  /\ c2_i' = (c2_i + 1) % (SIM_T2_INTERVAL \div SIM_T1_INTERVAL)
  /\ IF b_size = 0
       THEN /\ cout' = Append(cout, [msg |-> "Buffer is empty. Cannot dequeue.",
                                     value |-> 0])
            /\ UNCHANGED <<b_data, b_front, b_rear, b_size, sim_data, data_index>>
       ELSE LET value == b_data[b_front]
            IN /\ b_front' = IF b_front = b_rear THEN -1
                             ELSE (b_front + 1) % SIM_BUFFER_SIZE
               /\ b_rear' = IF b_front = b_rear THEN -1 ELSE b_rear
               /\ b_size' = b_size - 1
               /\ sim_data' = [sim_data EXCEPT ![data_index] = value]
               /\ data_index' = (data_index + 1) % SIM_DATA_SIZE
               /\ cout' = Append(cout, [msg |-> "Data successfully transferred",
                                        value |-> value])
               /\ UNCHANGED b_data
  /\ UNCHANGED <<c1_pc, c1_value>>
  /\ UNCHANGED <<freertosVars, t1Left, program, directVars>>

\* ---- the two programs of DAQ_System, one at a time --------------------------------
\* timer 1 fires once more than the buffer has room for
InitVariants ==
  /\ program \in {"direct", "simulation"}
  /\ DirectStatics /\ SimStatics
  /\ FreertosStatics
  /\ bufMutex = "NULL" /\ printQueueCreated = FALSE /\ samplingTaskHandle = "NULL"
  /\ printQueue = <<>>
  /\ s_pc = "notCreated" /\ p_pc = "notCreated"
  /\ t1Left = IF Direct THEN BUFFER_TRIPLETS + 1 ELSE SIM_BUFFER_SIZE + 2
  /\ t2Left = MaxT2

NextVariants ==
  \/ onTimer1
  \/ onTimer2
  \/ loop
  \/ callback1
  \/ callback2

SpecVariants == InitVariants /\ [][NextVariants]_vars

\* ---- properties -----------------------------------------------------------------
Prefix(s, t) == Len(s) <= Len(t) /\ \A i \in 1 .. Len(s) : s[i] = t[i]
InSeq(x, s) == \E i \in 1 .. Len(s) : s[i] = x
Last(s) == s[Len(s)]
\* the k-th row acquired
AcqRow(k) == [c \in Chans |-> analogRead(k, c)]
\* the real rows printed, in order
SinkRows == [i \in 1 .. Len(SelectSeq(sink, LAMBDA l : l.kind = "row")) |->
               SelectSeq(sink, LAMBDA l : l.kind = "row")[i].row]

\* C1: as long as no push has found the buffer full (nothing was evicted), the
\* rows returned by the successful pops are, in order, the first rows pushed:
\* strict FIFO, and no pushed row is returned twice.
C1_FifoWithinCapacity ==
  evictLog = <<>> =>
    /\ Prefix(popLog, pushLog)
    /\ \A i, j \in 1 .. Len(popLog) : popLog[i] = popLog[j] => i = j

\* pushes and pops interleaved, the cursors have wrapped around, nothing evicted
C1_Witness ==
  /\ evictLog = <<>>
  /\ Len(pushLog) > NUM_ROWS
  /\ Len(popLog) >= NUM_ROWS

\* the rows pushed and not evicted
Kept == SelectSeq(pushLog, LAMBDA row : ~InSeq(row, evictLog))
\* capacity + n rows were pushed (n >= 1) and every pop so far came after the
\* last of them: each pop before an eviction costs one more push to refill
OverfillThenPop == evictLog # <<>> /\ Len(pushLog) = NUM_ROWS + Len(evictLog)

\* C2: after capacity + n pushes with no pop, the first n rows have been
\* discarded and the buffer holds the last `capacity` rows; no discarded row is
\* ever popped; the pops that follow return the kept rows oldest first, and
\* once they are all returned the buffer is empty.
C2_OverwriteOldest ==
  /\ \A i \in 1 .. Len(evictLog) : ~InSeq(evictLog[i], popLog)
  /\ (popLog = <<>> /\ Len(pushLog) > NUM_ROWS) =>
        evictLog = SubSeq(pushLog, 1, Len(pushLog) - NUM_ROWS)
  /\ bufMutex = "free" =>
        /\ Kept = popLog \o Live
        /\ (popLog = <<>> /\ Len(pushLog) > NUM_ROWS) =>
              Live = SubSeq(pushLog, Len(pushLog) - NUM_ROWS + 1, Len(pushLog))
        /\ OverfillThenPop =>
              /\ popLog = SubSeq(pushLog, Len(evictLog) + 1, Len(evictLog) + Len(popLog))
              /\ Len(popLog) = NUM_ROWS => buf_count = 0

\* capacity + 1 rows pushed, then drained: the output is rows 2 .. capacity + 1
\* and then "<no-data>"
C2_Witness ==
  /\ Len(pushLog) = NUM_ROWS + 1
  /\ sink = [i \in 1 .. NUM_ROWS + 1 |->
               IF i <= NUM_ROWS THEN RowLine(AcqRow(i + 1)) ELSE NoDataLine]

\* C3: buf_count stays within 0 .. NUM_ROWS and equals completed pushes minus
\* successful pops minus overwrite evictions, in every interleaving of the two
\* tasks (so in particular wherever bufMutex is free).
C3_CountAccounting ==
  /\ 0 <= buf_count /\ buf_count <= NUM_ROWS
  /\ buf_count = Len(pushLog) - Len(popLog) - Len(evictLog)

\* the buffer is full after an eviction and several pops
C3_Witness ==
  /\ bufMutex = "free"
  /\ buf_count = NUM_ROWS
  /\ evictLog # <<>>
  /\ popLog # <<>>

\* C4: a push made under bufMutex stores the new row in the slot at the old
\* head and nowhere else, and advances buf_head by one modulo NUM_ROWS; with
\* room, buf_count grows by 1 and buf_tail stays; when full, buf_count stays,
\* buf_tail advances by one and the row lost is the oldest, not the new one.
C4_PushPostcondition ==
  s_pc = "give" =>
    /\ buffer = [s_pre.buffer EXCEPT ![s_pre.head] = s_row]
    /\ buf_head = (s_pre.head + 1) % NUM_ROWS
    /\ IF s_pre.count < NUM_ROWS
         THEN /\ buf_count = s_pre.count + 1
              /\ buf_tail = s_pre.tail
              /\ Live = Append(s_pre.live, s_row)
         ELSE /\ buf_count = s_pre.count
              /\ buf_tail = (s_pre.tail + 1) % NUM_ROWS
              /\ Live = Append(Tail(s_pre.live), s_row)

\* a push into a full buffer whose tail is not at slot 0 has just completed
C4_Witness ==
  /\ s_pc = "give"
  /\ s_pre.count = NUM_ROWS
  /\ s_pre.tail > 0

InSamplingCS == s_pc \in {"store0", "store", "head", "count", "give"}
InPrintCS == p_pc \in {"check", "copy", "tail", "dec", "give"}
\* the pop attempts of the current batch that held bufMutex and found no row
EmptyPops == {i \in 1 .. Len(batch.slots) :
                batch.slots[i].took /\ batch.slots[i].count = 0}

\* C5: a pop that finds buf_count == 0 leaves haveRow false and buffer,
\* buf_head, buf_tail and buf_count as they were, and the line printed for it
\* is "<no-data>", never a row.
C5_PopOnEmpty ==
  /\ (InPrintCS /\ p_pre.count = 0) =>
        /\ p_pc \in {"check", "give"}
        /\ ~p_haveRow
        /\ buffer = p_pre.buffer
        /\ buf_head = p_pre.head /\ buf_tail = p_pre.tail /\ buf_count = 0
  /\ \A i \in EmptyPops :
        /\ (i = Len(batch.slots) /\ p_pc = "emit") => ~p_haveRow
        /\ Len(sink) >= batch.from + i => sink[batch.from + i] = NoDataLine

\* after a row was popped (the local row is stale), a pop found the buffer
\* empty and its line was printed
C5_Witness ==
  /\ popLog # <<>>
  /\ p_row # ZeroRow
  /\ \E i \in EmptyPops : Len(sink) >= batch.from + i

\* C6: the critical sections of samplingTask and printTask never overlap and
\* each runs with bufMutex held; every row popped or printed is one whole
\* acquired row, never a mix of two pushes; and whenever bufMutex is free the
\* cursors agree (buf_head is buf_tail + buf_count modulo NUM_ROWS).
C6_MutualExclusion ==
  /\ ~(InSamplingCS /\ InPrintCS)
  /\ InSamplingCS <=> bufMutex = "samplingTask"
  /\ InPrintCS <=> bufMutex = "printTask"
  /\ \A i \in 1 .. Len(popLog) : \E k \in 1 .. nAcquired : popLog[i] = AcqRow(k)
  /\ \A i \in 1 .. Len(SinkRows) : \E k \in 1 .. nAcquired : SinkRows[i] = AcqRow(k)
  /\ bufMutex = "free" =>
        /\ buf_head = (buf_tail + buf_count) % NUM_ROWS
        /\ \A i \in 1 .. buf_count : \E k \in 1 .. nAcquired : Live[i] = AcqRow(k)

\* samplingTask is half-way through storing a row while printTask waits for
\* bufMutex to pop, after an earlier pop
C6_Witness ==
  /\ s_pc = "store" /\ s_c = 1
  /\ p_pc = "take"
  /\ bufMutex = "samplingTask"
  /\ buf_count > 0
  /\ popLog # <<>>

\* the acquisition a sample value comes from (analogRead read backwards)
AcqIndex(row) == row[0] \div 10
SeqSet(s) == {s[i] : i \in 1 .. Len(s)}
Quiescent == s_pc \in {"wait", "notCreated"} /\ p_pc \in {"recv", "notCreated"}

\* C7: the real rows printed are acquired rows in acquisition order, none
\* twice; and when both tasks are back at their waits, every acquired row is
\* in exactly one place: printed, evicted by an overwrite, dropped by the push
\* timeout, or still in the buffer.
C7_EndToEndOrder ==
  /\ \A i \in 1 .. Len(SinkRows) :
        /\ AcqIndex(SinkRows[i]) \in 1 .. nAcquired
        /\ SinkRows[i] = AcqRow(AcqIndex(SinkRows[i]))
  /\ \A i, j \in 1 .. Len(SinkRows) :
        i < j => AcqIndex(SinkRows[i]) < AcqIndex(SinkRows[j])
  /\ Quiescent =>
        /\ {AcqRow(k) : k \in 1 .. nAcquired} =
             SeqSet(SinkRows) \cup SeqSet(evictLog) \cup SeqSet(dropLog) \cup SeqSet(Live)
        /\ Len(SinkRows) + Len(evictLog) + Len(dropLog) + buf_count = nAcquired

\* rows were printed, one was evicted, one was dropped and one is still held
C7_Witness ==
  /\ Quiescent
  /\ Len(SinkRows) >= 2
  /\ evictLog # <<>>
  /\ dropLog # <<>>
  /\ buf_count > 0

\* the lines printed for the current batch
BatchLines == [i \in 1 .. (Len(sink) - batch.from) |-> sink[batch.from + i]]
RowsThenMarkers(lines, m) ==
  /\ Len(lines) = BATCH_ROWS
  /\ \A i \in 1 .. BATCH_ROWS : (lines[i].kind = "row") <=> (i <= m)

\* C8 as stated: a batch that starts with m < B rows in the buffer prints m
\* rows and then B - m markers, whatever samplingTask does meanwhile.  It is
\* taken here over the wakes in which every pop attempt obtained bufMutex, so
\* that its failure does not rest on what a mutex timeout does.
C8_AsClaimed ==
  (/\ batch.status = "closed"
   /\ batch.m < BATCH_ROWS
   /\ \A i \in 1 .. Len(batch.slots) : batch.slots[i].took) =>
     RowsThenMarkers(BatchLines, batch.m)

\* C8, amended: every batch prints exactly B lines, and the line of a pop
\* attempt is a row exactly when the attempt obtained bufMutex and found
\* buf_count > 0.  If the batch starts with m < B rows and no push completes
\* during it, at most m rows are printed, and when every attempt obtained
\* bufMutex the lines are m rows followed by B - m markers.
C8_BatchLines ==
  batch.status = "closed" =>
    /\ Len(BatchLines) = BATCH_ROWS
    /\ Len(batch.slots) = BATCH_ROWS
    /\ \A i \in 1 .. BATCH_ROWS :
          (BatchLines[i].kind = "row") <=>
             (batch.slots[i].took /\ batch.slots[i].count > 0)
    /\ (batch.m < BATCH_ROWS /\ batch.pushes = 0) =>
          /\ Cardinality({i \in 1 .. BATCH_ROWS : BatchLines[i].kind = "row"}) <= batch.m
          /\ (\A i \in 1 .. BATCH_ROWS : batch.slots[i].took) =>
                RowsThenMarkers(BatchLines, batch.m)

\* a batch that started with one row, undisturbed: the row, then "<no-data>"
C8_Witness ==
  /\ batch.status = "closed"
  /\ batch.m = 1
  /\ batch.pushes = 0
  /\ \A i \in 1 .. BATCH_ROWS : batch.slots[i].took
  /\ BatchLines[1].kind = "row" /\ BatchLines[2].kind = "no-data"

\* C9 as stated: once a pop attempt of a wake fails to obtain bufMutex, the
\* wake makes no further attempt, prints nothing and pops nothing.
C9_BatchSkippedOnTimeout ==
  \A i \in 1 .. Len(batch.slots) :
     ~batch.slots[i].took =>
        /\ Len(batch.slots) = i
        /\ Len(sink) = batch.from
        /\ \A j \in 1 .. Len(batch.slots) :
              ~(batch.slots[j].took /\ batch.slots[j].count > 0)

\* C10: when samplingTask leaves xSemaphoreTake without bufMutex, the buffer,
\* buf_head, buf_tail, buf_count and bufMutex are untouched, the row is dropped
\* and the task is back at its wait; the critical section is only entered with
\* the mutex taken from free; a dropped row is never pushed later.
C10_SampleDroppedOnTimeout ==
  /\ [](\A i \in 1 .. Len(dropLog) :
           /\ ~InSeq(dropLog[i], pushLog)
           /\ s_pc \notin {"wait", "read"} => s_row # dropLog[i]
           /\ \A r \in Rows, c \in Chans : buffer[r][c] # dropLog[i][c])
  /\ [][ /\ (s_pc = "take" /\ s_pc' # "take" /\ bufMutex # "free") =>
              /\ s_pc' = "wait"
              /\ dropLog' = Append(dropLog, s_row)
              /\ UNCHANGED <<buffer, buf_head, buf_tail, buf_count, bufMutex>>
              /\ UNCHANGED <<pushLog, nAcquired>>
         /\ (s_pc = "take" /\ s_pc' = "store0") =>
              bufMutex = "free" /\ bufMutex' = "samplingTask"
       ]_vars

\* a row was dropped while the buffer held data, and samplingTask waits again
C10_Witness ==
  /\ dropLog # <<>>
  /\ s_pc = "wait"
  /\ buf_count > 0
  /\ Len(pushLog) > Len(dropLog)

\* ---- fair scheduling -------------------------------------------------------------
\* Both tasks are scheduled by FreeRTOS: a task that can run is eventually run.
SamplingStep == Running /\ samplingTask
PrintStep == Running /\ printTask

FairSpec == Spec /\ WF_vars(SamplingStep) /\ WF_vars(PrintStep)

SamplingWoken == s_pc \notin {"wait", "notCreated"}
PrintWoken == p_pc \notin {"recv", "notCreated"}

\* C11: a task that has been woken is never stuck: away from its wait it can
\* always take its next step (xSemaphoreTake either succeeds or times out), so
\* that under fair scheduling it gets back to ulTaskNotifyTake, resp.
\* xQueueReceive, whatever the other task does.
C11_WokenTaskNeverStuck ==
  /\ SamplingWoken => ENABLED SamplingStep
  /\ PrintWoken => ENABLED PrintStep

\* the same with bufMutex created: every woken task returns to its wait
C11_ReturnsToWaitWithMutex ==
  /\ (bufMutex # "NULL" /\ SamplingWoken) ~> (s_pc = "wait")
  /\ (bufMutex # "NULL" /\ PrintWoken) ~> (p_pc = "recv")

\* ---- the event queue filled up ---------------------------------------------------
\* Timer 2 fires more often than printQueue has room for.
InitQueue == InitWith(QueueT1, QUEUE_LENGTH + 2)
SpecQueue == InitQueue /\ [][Next]_vars

T2Fires == t2Left' # t2Left

\* C12: printQueue never holds more than 16 events; T2_callback can always
\* run (it does not block); firing on a full queue changes nothing in the
\* queue (the new event is dropped), otherwise the event is added at the back;
\* printTask takes events from the front.
C12_BoundedEventQueue ==
  /\ [](/\ Len(printQueue) <= QUEUE_LENGTH
        /\ (Running /\ t2Left > 0) => ENABLED T2_callback)
  /\ [][ /\ T2Fires =>
              /\ printQueue' = IF printQueueCreated /\ Len(printQueue) < QUEUE_LENGTH
                                 THEN Append(printQueue, EVT_T2) ELSE printQueue
              /\ UNCHANGED <<sVars, pVars, sink, panicked>>
         /\ (printQueue' # printQueue /\ ~T2Fires) =>
              /\ p_pc = "recv" /\ printQueue # <<>>
              /\ p_evt' = Head(printQueue)
              /\ printQueue' = Tail(printQueue)
       ]_vars

\* timer 2 has fired 18 times with printTask not yet run: 16 events are queued
\* and the last two were dropped
C12_Witness ==
  /\ t2Left = 0
  /\ Len(printQueue) = QUEUE_LENGTH
  /\ p_pc = "recv" /\ sink = <<>>

\* ---- wakes of samplingTask -------------------------------------------------------
T1Fires == MaxT1 - t1Left
B2N(b) == IF b THEN 1 ELSE 0

\* the acquired rows samplingTask has dealt with: each one was pushed (its
\* count step done) or dropped
CyclesDone == Len(pushLog) + Len(dropLog)

\* C13: timer-1 fires arriving while samplingTask is busy are not counted: the
\* wake clears every pending notification, each wake is followed by exactly
\* one acquisition before the task is back at its wait, and the rows acquired
\* (with a pending wake counted as one) never exceed the fires.
C13_WakesDoNotAccumulate ==
  /\ [](/\ nAcquired + B2N(s_pc = "read") + B2N(notifyValue > 0) <= T1Fires
        /\ samplingTaskHandle = "NULL" => nAcquired = 0 /\ notifyValue = 0
        /\ nAcquired = CyclesDone
                        + B2N(s_pc \in {"take", "store0", "store", "head", "count"}))
  /\ [][ /\ (s_pc = "wait" /\ s_pc' # "wait") =>
              /\ notifyValue >= 1 /\ notifyValue' = 0
              /\ s_pc' = "read" /\ nAcquired' = nAcquired
         /\ (s_pc' = "read" /\ s_pc # "read") => s_pc = "wait"
         /\ nAcquired' # nAcquired =>
              s_pc = "read" /\ s_pc' = "take" /\ nAcquired' = nAcquired + 1
         /\ (s_pc' = "wait" /\ s_pc # "wait") => s_pc \in {"take", "give"}
       ]_vars

\* all fires delivered and consumed, with fewer rows acquired than fires: at
\* least one wake absorbed several fires
C13_Witness ==
  /\ samplingTaskHandle # "NULL"
  /\ t1Left = 0 /\ notifyValue = 0 /\ s_pc = "wait"
  /\ nAcquired >= 2 /\ nAcquired < T1Fires

\* ---- what a timer interrupt touches ----------------------------------------------
T1Fire == t1Left' # t1Left
TaskState == <<sVars, pVars, sink, panicked, histVars>>
RingState == <<buffer, buf_head, buf_tail, buf_count, bufMutex>>

\* C14: a timer interrupt only signals its task. T1_callback changes nothing
\* but the notification count of samplingTask, T2_callback nothing but
\* printQueue; neither touches the ring buffer, its cursors, bufMutex, the
\* Sink or a task's position; with samplingTaskHandle, resp. printQueue, NULL
\* the interrupt changes no program state and nothing halts.
C14_FireOnlySignals ==
  [][ /\ T1Fire =>
           /\ UNCHANGED <<RingState, TaskState>>
           /\ UNCHANGED <<printQueueCreated, printQueue, samplingTaskHandle, t2Left>>
           /\ notifyValue' = notifyValue + B2N(samplingTaskHandle # "NULL")
           /\ samplingTaskHandle = "NULL" => UNCHANGED progVars
      /\ T2Fires =>
           /\ UNCHANGED <<RingState, TaskState>>
           /\ UNCHANGED <<printQueueCreated, notifyValue, samplingTaskHandle, t1Left>>
           /\ printQueue' \in {printQueue, Append(printQueue, EVT_T2)}
           /\ ~printQueueCreated => UNCHANGED progVars
    ]_vars

\* timer 1 has fired with samplingTask absent, and printTask went on to emit
\* a whole batch
C14_Witness ==
  /\ samplingTaskHandle = "NULL" /\ T1Fires > 0
  /\ ~panicked /\ Len(sink) >= BATCH_ROWS

\* the same for timer 2 with printQueue absent: samplingTask went on to push
C14_WitnessNoQueue ==
  /\ ~printQueueCreated /\ t2Left < MaxT2
  /\ ~panicked /\ pushLog # <<>>

\* ---- a write to a full buffer in the two programs of DAQ_System -------------------
TimerOneStep == t1Left' # t1Left

\* onTimer1 on a full buffer stores the triplet and gives up the oldest entry
OverwritesOldestDirect ==
  (Direct /\ TimerOneStep /\ bufferSize = BUFFER_SIZE) =>
     /\ d_k' = d_k + 1
     /\ rear' \in DOMAIN isr_buffer' /\ isr_buffer'[rear'] = Sample(d_k', 2)
     /\ bufferSize' = bufferSize
     /\ front' # front

\* Buffer::enqueue on a full Buffer stores the value and gives up the oldest
OverwritesOldestSim ==
  (Simulation /\ TimerOneStep /\ b_size = SIM_BUFFER_SIZE) =>
     /\ b_rear' \in DOMAIN b_data' /\ b_data'[b_rear'] = c1_value'
     /\ b_size' = b_size
     /\ b_front' # b_front

\* C15: in main.cpp (onTimer1) and in callbacks.h (Buffer::enqueue) a write
\* that arrives when the buffer is full is stored, and the oldest entry held
\* makes room for it: the size stays, the front moves on and the new value is
\* the one at the rear.
C15_OverwriteOldestInVariants ==
  [][OverwritesOldestDirect /\ OverwritesOldestSim]_vars

\* ---- events of any tag in printQueue ---------------------------------------------
\* printTask receives a uint8_t; besides EVT_T2 the source names EVT_T1
Tags == {EVT_T1, EVT_T2, 255}
TagQueues == {<<a>> : a \in Tags} \cup {<<a, b>> : a \in Tags, b \in Tags}

InitTags == InitQueued(QueueT1, 1, TagQueues)
SpecTags == InitTags /\ [][Next]_vars

InBatch == p_pc \in {"for", "take", "check", "copy", "tail", "dec", "give", "emit"}
BatchAttempts == Len(batch.slots)
BatchEmitted == Len(sink) - batch.from
BatchRemoved == Len(popLog) - batch.popped
PrintTaskMoves == p_pc' # p_pc

\* C16: printTask decides on the tag alone. An EVT_T2 opens a batch of exactly
\* two turns, each with one attempt on bufMutex and one line of output, that
\* removes at most two rows; an event with another tag sends printTask straight
\* back to xQueueReceive: bufMutex is not taken, the buffer and the Sink stay
\* as they are.
C16_DispatchOnTag ==
  /\ [](/\ InBatch => p_evt = EVT_T2 /\ batch.status = "open"
        /\ bufMutex = "printTask" => p_evt = EVT_T2
        /\ batch.status # "none" =>
             /\ BatchAttempts <= BATCH_ROWS
             /\ BatchEmitted <= BATCH_ROWS
             /\ BatchRemoved <= BatchAttempts
        /\ batch.status = "closed" =>
             BatchAttempts = BATCH_ROWS /\ BatchEmitted = BATCH_ROWS)
  /\ [][ /\ (p_pc = "dispatch" /\ PrintTaskMoves) =>
              IF p_evt = EVT_T2
                THEN /\ p_pc' = "for"
                     /\ batch'.status = "open" /\ batch'.slots = <<>>
                     /\ batch'.from = Len(sink) /\ batch'.popped = Len(popLog)
                ELSE /\ p_pc' = "recv"
                     /\ UNCHANGED <<RingState, sink, popLog, batch>>
         /\ (sink' # sink \/ popLog' # popLog) => InBatch
       ]_vars

\* a whole batch was run for an EVT_T2, and the EVT_T1 received after it has
\* sent printTask back to xQueueReceive with nothing more printed
C16_Witness ==
  /\ p_pc = "recv" /\ p_evt = EVT_T1
  /\ batch.status = "closed"
  /\ Len(sink) = BATCH_ROWS

\* ---- the cursors between critical sections ---------------------------------------
MutexHeld == bufMutex \in {"samplingTask", "printTask"}
LiveSlot(i) == (buf_tail + i) % NUM_ROWS

\* C17: whenever bufMutex is not held, buf_head and buf_tail are indices of
\* the buffer, buf_head is buf_count slots after buf_tail (modulo NUM_ROWS), so
\* that they coincide exactly when the buffer is empty or full, and the
\* buf_count slots from buf_tail on are different rows of the storage.
C17_CursorInvariant ==
  ~MutexHeld =>
    /\ buf_head \in Rows /\ buf_tail \in Rows
    /\ buf_count \in 0 .. NUM_ROWS
    /\ buf_head = (buf_tail + buf_count) % NUM_ROWS
    /\ buf_head = buf_tail <=> buf_count \in {0, NUM_ROWS}
    /\ \A i, j \in 0 .. (buf_count - 1) : i # j => LiveSlot(i) # LiveSlot(j)

\* the buffer full after an eviction has moved buf_tail, and bufMutex free
C17_Witness ==
  /\ bufMutex = "free"
  /\ buf_count = NUM_ROWS
  /\ buf_tail # 0 /\ buf_head = buf_tail
  /\ evictLog # <<>>

\* (inside a critical section the cursors do disagree for a moment)
C17_OnlyBetweenSections ==
  MutexHeld /\ buf_head # (buf_tail + buf_count) % NUM_ROWS

\* ---- the cursors of main.cpp ------------------------------------------------------
\* the values of one onTimer2 batch are whole triplets, channel by channel
WholeTriplets(values) ==
  /\ Len(values) % 3 = 0
  /\ \A i \in 1 .. Len(values) :
       \E k \in 1 .. d_k : values[i] = Sample(k, (i - 1) % 3)
  /\ \A i \in 1 .. Len(values) :
       (i % 3 # 1) => values[i] = values[i - 1] + (Sample(1, 1) - Sample(1, 0))

SizeInRange == bufferSize \in 0 .. BUFFER_SIZE /\ bufferSize % 3 = 0
EmptyIffNoCursors == (front = -1 /\ rear = -1) <=> bufferSize = 0
RearFollowsFront ==
  bufferSize > 0 =>
    /\ front \in 0 .. (BUFFER_SIZE - 1) /\ rear \in 0 .. (BUFFER_SIZE - 1)
    /\ rear = (front + bufferSize - 1) % BUFFER_SIZE

\* C18: after any sequence of onTimer1 and onTimer2, bufferSize is a multiple
\* of 3 between 0 and BUFFER_SIZE, front = rear = -1 exactly when it is 0,
\* otherwise front and rear are indices of the buffer with rear the last of
\* bufferSize entries counted from front modulo BUFFER_SIZE, and onTimer2
\* takes out whole triplets.
C18_DirectIsrInvariant ==
  Direct =>
    /\ SizeInRange
    /\ EmptyIffNoCursors
    /\ RearFollowsFront
    /\ WholeTriplets(deqBatch)

\* ---- who holds bufMutex, and where ------------------------------------------------
SamplingHolds == bufMutex = "samplingTask"
PrintHolds == bufMutex = "printTask"

\* C19: a task holds bufMutex exactly from its successful xSemaphoreTake to
\* its one xSemaphoreGive: it holds it nowhere else, so never while waiting in
\* ulTaskNotifyTake or xQueueReceive and never while printing; the mutex is
\* released only by its holder at the give, taken only when free, and a task
\* whose take timed out leaves it as it is.
C19_LockDiscipline ==
  /\ [](/\ SamplingHolds <=> s_pc \in {"store0", "store", "head", "count", "give"}
        /\ PrintHolds <=> p_pc \in {"check", "copy", "tail", "dec", "give"}
        /\ s_pc = "wait" => ~SamplingHolds
        /\ p_pc \in {"recv", "emit"} => ~PrintHolds)
  /\ [][ /\ (SamplingHolds /\ ~SamplingHolds') =>
              s_pc = "give" /\ s_pc' = "wait" /\ bufMutex' = "free"
         /\ (PrintHolds /\ ~PrintHolds') =>
              p_pc = "give" /\ p_pc' = "emit" /\ bufMutex' = "free"
         /\ (~SamplingHolds /\ SamplingHolds') => s_pc = "take" /\ bufMutex = "free"
         /\ (~PrintHolds /\ PrintHolds') => p_pc = "take" /\ bufMutex = "free"
         /\ (s_pc = "take" /\ s_pc' = "wait") => bufMutex' = bufMutex
         /\ (p_pc = "take" /\ p_pc' = "emit") => bufMutex' = bufMutex
         /\ sink' # sink => ~PrintHolds /\ ~PrintHolds'
       ]_vars

\* printTask has taken the mutex, popped a row, given the mutex back and is
\* about to print the row; before that samplingTask had a take time out
C19_Witness ==
  /\ p_pc = "emit" /\ p_haveRow
  /\ bufMutex = "free"
  /\ dropLog # <<>>

\* ---- timer 2 firing for ever ------------------------------------------------------
\* The hardware timers are periodic: there is no last interrupt of timer 2.
\* Once the interrupts explored so far are used up and printTask is back in
\* xQueueReceive with the queue empty, the count starts again; the output
\* already produced and the record of the rows already popped are forgotten,
\* the program's own variables stay as they are.
Rewind ==
  /\ t2Left = 0
  /\ p_pc = "recv" /\ printQueue = <<>>
  /\ t2Left' = LiveT2
  /\ sink' = <<>>
  /\ popLog' = <<>>
  /\ batch' = NoBatch
  /\ UNCHANGED <<progVars, sVars, pVars, panicked, t1Left>>
  /\ UNCHANGED <<nAcquired, pushLog, evictLog, dropLog, s_pre, p_pre>>
  /\ UNCHANGED variantVars

NextLive ==
  /\ Running
  /\ \/ T1_callback
     \/ T2_callback
     \/ samplingTask
     \/ printTask
     \/ Panic
     \/ Rewind

TimerTwoStep == Running /\ (T2_callback \/ Rewind)

InitLive == InitWith(LiveT1, LiveT2)
SpecLive ==
  /\ InitLive /\ [][NextLive]_vars
  /\ WF_vars(SamplingStep) /\ WF_vars(PrintStep)
  /\ WF_vars(TimerTwoStep)

\* both tasks exist and bufMutex was created
PipelineUp == bufMutex # "NULL" /\ s_pc # "notCreated" /\ p_pc # "notCreated"
Emitted(row) == InSeq(RowLine(row), sink)
\* the row is one of the buf_count rows held, seen between critical sections
Held(row) == ~MutexHeld /\ \E i \in 1 .. buf_count : Live[i] = row

\* C20: with both tasks scheduled fairly, timer 2 firing for ever and
\* bufMutex obtainable, no row stays in the buffer: every row held is
\* eventually printed to the Sink or evicted by a push on the full buffer;
\* and every event in printQueue is eventually received by printTask.
C20_RowsLeaveEventsConsumed ==
  /\ \A k \in 1 .. LiveT1 :
       (PipelineUp /\ Held(AcqRow(k)))
          ~> (Emitted(AcqRow(k)) \/ InSeq(AcqRow(k), evictLog))
  /\ (PipelineUp /\ printQueue # <<>>) ~> (p_pc = "dispatch")

\* two rows were pushed and both have left the buffer; the first was printed
\* before the interrupts of timer 2 were counted anew, the second after
C20_Witness ==
  /\ PipelineUp
  /\ Len(pushLog) = 2 /\ evictLog = <<>> /\ dropLog = <<>>
  /\ buf_count = 0
  /\ Len(popLog) = 1 /\ Emitted(AcqRow(2)) /\ ~Emitted(AcqRow(1))

\* ---- the lines printed by loop() --------------------------------------------------
MidLine == l_pc = "print" /\ l_i \in 1 .. (DATA_SIZE - 1)
LinePrinted == serial' # serial
Dequeues == Direct /\ t2Left' # t2Left /\ deqBatch' # <<>>

\* C21: a line printed by loop() is `data` as it was at one instant: onTimer2
\* does not shift `data` between the printing of data[0] and of
\* data[DATA_SIZE - 1] of a line, so that the finished line is one of the
\* contents `data` had meanwhile; and an onTimer2 that dequeues leaves
\* sendDataFlag set for loop() to print again.
C21_LineIsOneWindow ==
  [][ /\ LinePrinted => Last(serial') \in l_seen
      /\ (Direct /\ MidLine) => data' = data
      /\ Dequeues => sendDataFlag'
    ]_vars

\* (the part about sendDataFlag alone)
C21_DequeueSetsFlag == [][Dequeues => sendDataFlag']_vars

\* a line made of the first entry of one window and the rest of the next
C21_TornLine ==
  /\ Direct /\ serial # <<>>
  /\ Last(serial) \notin l_seen

====
